---------------------------- MODULE Spec2Model ----------------------------
(***************************************************************************)
(* Target Brazil e-commerce analytics: the batch pipeline of               *)
(* run_target_queries.py.  main() builds an in-memory DuckDB connection    *)
(* with one view per CSV file (init_db), then runs the 23 queries of the   *)
(* catalog one after another, writing for each a full CSV and a ten-row    *)
(* preview CSV (run_and_save).                                             *)
(*                                                                         *)
(* The environment is the data directory (the eight CSV files and their    *)
(* condition), the output directory and its files, and the failures the    *)
(* operating system can answer a mkdir or a write with.  A state of the    *)
(* model is the state between two statements of main(): before main() is   *)
(* started, between two iterations of its for loop, or after main() has    *)
(* returned or died of an uncaught exception.  The output directory        *)
(* outlives a run, so main() can be started again on what an earlier run   *)
(* left behind.                                                            *)
(***************************************************************************)
EXTENDS Integers, Sequences, FiniteSets, TLC

VARIABLES
  pc,            \* "idle" | "loop" (inside main's for loop) | "done" | "aborted"
  i,             \* index into queries of the entry the for loop handles next
  runs,          \* number of times main() has been started
  data,          \* version of the contents of the CSV files (the table set)
  defects,       \* defective CSV files plus output operations refused so far
  dataDirExists, \* DATA_DIR.exists()
  srcFile,       \* condition of the CSV file of each table
  views,         \* the views of the current connection: table -> file name
  con,           \* TRUE once init_db has returned the connection to main
  outDirExists,  \* OUTPUT_DIR exists
  fs,            \* the files of OUTPUT_DIR: file name -> lines
  err,           \* the exception that ended the run, if any
  attempted,     \* entries whose query this run has handed to the evaluator
  written,       \* file names this run has written completely
  okLog,         \* the "[OK] ..." lines this run has printed
  matData,       \* entry -> data version its two artifacts were last written
                 \* from by one successful run_and_save (0: never, or damaged)
  arg,           \* the names handed to the base-name derivation (SpecNames),
                 \* the purchase timestamps of orders (SpecTimeRange),
                 \* the rows of payments (SpecInstallments),
                 \* the purchase timestamps of orders (SpecTimeOfDay)
  res,           \* <<computed?, the base names derived from arg or the rows
                 \* entry 1 yields over arg>>
  inits,         \* dashboard: the times init_db has been run by get_connection
  rendered,      \* dashboard: run_query sites whose result this pass has shown
  shownErrors,   \* dashboard: sites whose exception this pass caught and showed
  selected_option, \* dashboard: the option chosen in the table selectbox
  dl_dir,        \* download script: the entries of its OUTPUT_DIR
  todo,          \* download script: names of os.listdir not yet visited
  kept,          \* download script: the list kept
  removed,       \* download script: the list removed
  before,        \* download script: entries of OUTPUT_DIR before the download
  downloaded,    \* download script: entries the download has added
  injected       \* an entry put into the list of main() before it is run:
                 \* [pos, kind], pos = 0 for the list as the source has it

vars == <<pc, i, runs, data, defects, dataDirExists, srcFile, views, con,
          outDirExists, fs, err, attempted, written, okLog, matData, arg, res,
          injected, inits, rendered, shownErrors, selected_option,
          dl_dir, todo, kept, removed, before, downloaded>>

\* the state of the download script, Target.py
targetVars == <<dl_dir, todo, kept, removed, before, downloaded>>

\* the state of the dashboard process
dashVars == <<inits, rendered, shownErrors, selected_option>>

-----------------------------------------------------------------------------
(* Bounds of the model *)

\* the orders table of SpecTimeRange has at most this many rows
MaxOrders == 3

\* the directory of the download script holds at most this many entries
MaxDirEntries == 3

\* the orders table of SpecTimeOfDay has at most this many rows
MaxHourRows == 2

\* the payments table of SpecInstallments has at most this many rows
MaxPayments == 4

\* main() is started at most this many times in a behaviour
MaxRuns == 2
\* the evaluator returns at most this many rows
MaxRows == 12
\* at most this many defects in a behaviour of Spec: defective CSV files plus
\* refused output operations
MaxDefects == 1
\* at most this many defective CSV files in a behaviour of SpecIngest
MaxFaulty == 2
\* longest name the base-name function is applied to in SpecSafeName
MaxNameLen == 3

-----------------------------------------------------------------------------
(* Program constants *)

\* result.head(10)
PreviewRows == 10

\* csv_map, in the order the dict is written (dicts iterate in insertion order)
csv_map ==
  << <<"customers", "customers.csv">>,
     <<"sellers", "sellers.csv">>,
     <<"order_items", "order_items.csv">>,
     <<"geolocation", "geolocation.csv">>,
     <<"payments", "payments.csv">>,
     <<"reviews", "order_reviews.csv">>,
     <<"orders", "orders.csv">>,
     <<"products", "products.csv">> >>

TableNames == {csv_map[n][1] : n \in 1..Len(csv_map)}

\* position of a table in csv_map
TablePos(t) == CHOOSE n \in 1..Len(csv_map) : csv_map[n][1] = t

\* csv_path = DATA_DIR / filename
csv_path(t) == <<"DATA_DIR", csv_map[TablePos(t)][2]>>

\* faulty options: no view is read with ignore_errors=true
read_optsAllStrict(t) == "strict"

\* read_opts: only the view of reviews is read with ignore_errors=true
read_opts(t) == IF t = "reviews" THEN "ignore_errors" ELSE "strict"

\* the catalog of main(): name, the tables its body reads (FROM / JOIN), and
\* the columns of its final SELECT
queries ==
  <<
    [name |-> <<"1","_","2","_","o","r","d","e","r","s","_","t","i","m","e","_","r","a","n","g","e">>,
     tables |-> {"orders"},
     columns |-> <<"first_order_date", "last_order_date", "total_days">>],
    [name |-> <<"1","_","3","_","c","u","s","t","o","m","e","r","_","c","i","t","i","e","s","_","s","t","a","t","e","s">>,
     tables |-> {"customers", "orders"},
     columns |-> <<"total_cities", "total_states">>],
    [name |-> <<"2","_","1","_","o","r","d","e","r","s","_","t","r","e","n","d","_","b","y","_","y","e","a","r">>,
     tables |-> {"orders"},
     columns |-> <<"order_year", "total_orders", "previous_year_orders", "year_over_year_growth_pct">>],
    [name |-> <<"2","_","2","_","m","o","n","t","h","l","y","_","s","e","a","s","o","n","a","l","i","t","y">>,
     tables |-> {"orders"},
     columns |-> <<"order_year", "order_month", "total_orders">>],
    [name |-> <<"2","_","3","_","t","i","m","e","_","o","f","_","d","a","y","_","d","i","s","t","r","i","b","u","t","i","o","n">>,
     tables |-> {"orders"},
     columns |-> <<"time_of_day", "order_count", "percentage">>],
    [name |-> <<"3","_","1","_","m","o","n","t","h","_","o","n","_","m","o","n","t","h","_","o","r","d","e","r","s","_","b","y","_","s","t","a","t","e">>,
     tables |-> {"orders", "customers"},
     columns |-> <<"customer_state", "order_year", "order_month", "total_orders">>],
    [name |-> <<"3","_","2","_","c","u","s","t","o","m","e","r","_","d","i","s","t","r","i","b","u","t","i","o","n","_","b","y","_","s","t","a","t","e">>,
     tables |-> {"customers"},
     columns |-> <<"customer_state", "total_customers", "percentage">>],
    [name |-> <<"4","_","1","_","c","o","s","t","_","i","n","c","r","e","a","s","e","_","2","0","1","7","_","t","o","_","2","0","1","8">>,
     tables |-> {"orders", "payments"},
     columns |-> <<"cost_2018", "cost_2017", "percentage_increase">>],
    [name |-> <<"4","_","2","_","t","o","t","a","l","_","a","v","g","_","o","r","d","e","r","_","p","r","i","c","e","_","b","y","_","s","t","a","t","e">>,
     tables |-> {"orders", "customers", "order_items"},
     columns |-> <<"customer_state", "total_order_price", "avg_order_price">>],
    [name |-> <<"4","_","3","_","t","o","t","a","l","_","a","v","g","_","f","r","e","i","g","h","t","_","b","y","_","s","t","a","t","e">>,
     tables |-> {"orders", "customers", "order_items"},
     columns |-> <<"customer_state", "total_freight_value", "avg_freight_value">>],
    [name |-> <<"5","_","1","_","d","e","l","i","v","e","r","y","_","t","i","m","e","_","a","n","d","_","e","s","t","i","m","a","t","e","d","_","d","i","f","f">>,
     tables |-> {"orders"},
     columns |-> <<"order_id", "order_purchase_timestamp", "order_delivered_customer_date", "order_estimated_delivery_date", "time_to_deliver", "diff_estimated_delivery">>],
    [name |-> <<"5","_","2","_","t","o","p","5","_","s","t","a","t","e","s","_","h","i","g","h","e","s","t","_","a","v","g","_","f","r","e","i","g","h","t">>,
     tables |-> {"orders", "customers", "order_items"},
     columns |-> <<"customer_state", "avg_freight_value">>],
    [name |-> <<"5","_","2","_","t","o","p","5","_","s","t","a","t","e","s","_","l","o","w","e","s","t","_","a","v","g","_","f","r","e","i","g","h","t">>,
     tables |-> {"orders", "customers", "order_items"},
     columns |-> <<"customer_state", "avg_freight_value">>],
    [name |-> <<"5","_","3","_","t","o","p","5","_","s","t","a","t","e","s","_","h","i","g","h","e","s","t","_","a","v","g","_","d","e","l","i","v","e","r","y","_","t","i","m","e">>,
     tables |-> {"orders", "customers"},
     columns |-> <<"customer_state", "avg_delivery_time">>],
    [name |-> <<"5","_","3","_","t","o","p","5","_","s","t","a","t","e","s","_","l","o","w","e","s","t","_","a","v","g","_","d","e","l","i","v","e","r","y","_","t","i","m","e">>,
     tables |-> {"orders", "customers"},
     columns |-> <<"customer_state", "avg_delivery_time">>],
    [name |-> <<"5","_","4","_","t","o","p","5","_","s","t","a","t","e","s","_","f","a","s","t","_","v","s","_","e","s","t","i","m","a","t","e","d">>,
     tables |-> {"orders", "customers"},
     columns |-> <<"customer_state", "avg_days_faster_than_estimated">>],
    [name |-> <<"6","_","1","_","m","o","n","t","h","l","y","_","o","r","d","e","r","s","_","b","y","_","p","a","y","m","e","n","t","_","t","y","p","e">>,
     tables |-> {"orders", "payments"},
     columns |-> <<"order_year", "order_month", "payment_type", "order_count">>],
    [name |-> <<"6","_","2","_","o","r","d","e","r","s","_","b","y","_","i","n","s","t","a","l","l","m","e","n","t","s">>,
     tables |-> {"payments"},
     columns |-> <<"payment_installments", "order_count">>],
    [name |-> <<"A","1","_","t","o","p","1","0","_","p","r","o","d","u","c","t","s","_","b","y","_","v","o","l","u","m","e">>,
     tables |-> {"order_items", "products"},
     columns |-> <<"product_category_name", "total_items_sold", "total_revenue">>],
    [name |-> <<"A","2","_","c","u","s","t","o","m","e","r","_","r","e","t","e","n","t","i","o","n">>,
     tables |-> {"orders"},
     columns |-> <<"total_customers", "repeat_customers", "retention_rate">>],
    [name |-> <<"A","3","_","a","v","g","_","o","r","d","e","r","_","v","a","l","u","e","_","b","y","_","s","t","a","t","e">>,
     tables |-> {"orders", "customers", "payments"},
     columns |-> <<"customer_state", "total_orders", "total_revenue", "avg_order_value">>],
    [name |-> <<"A","4","_","o","r","d","e","r","_","s","t","a","t","u","s","_","d","i","s","t","r","i","b","u","t","i","o","n">>,
     tables |-> {"orders"},
     columns |-> <<"order_status", "order_count", "percentage">>],
    [name |-> <<"A","5","_","r","e","v","i","e","w","_","s","c","o","r","e","_","d","i","s","t","r","i","b","u","t","i","o","n">>,
     tables |-> {"reviews"},
     columns |-> <<"review_score", "review_count", "percentage">>]
  >>

N == Len(queries)

NoInjection == [pos |-> 0, kind |-> "none"]

\* entries that are not in the source's list: one with an empty name, one
\* with an empty body, one whose body reads a table init_db registers no
\* view for (the file name of reviews instead of its table name)
InjectedDef(kind) ==
  CASE kind = "empty_name" ->
         [name |-> <<>>, tables |-> {"orders"}, columns |-> <<"order_id">>]
    [] kind = "empty_body" ->
         [name |-> <<"e", "m", "p", "t", "y">>, tables |-> {}, columns |-> <<>>]
    [] kind = "unknown_table" ->
         [name |-> <<"u", "n", "k", "n", "o", "w", "n">>,
          tables |-> {"order_reviews"}, columns |-> <<"review_id">>]

\* the list main() iterates over
NumEntries == IF injected.pos = 0 THEN N ELSE N + 1

Entry(k) ==
  IF injected.pos = 0 \/ k < injected.pos THEN queries[k]
  ELSE IF k = injected.pos THEN InjectedDef(injected.kind)
  ELSE queries[k - 1]

\* the body holds no statement
EmptyBody(def) == def.tables = {} /\ def.columns = <<>>

\* a catalogue whose bodies name a table by the stem of its file
TablesByFileStem(def) ==
  {IF t = "reviews" THEN "order_reviews" ELSE t : t \in def.tables}

\* the table names in the FROM and JOIN clauses of the body of an entry
Tables(def) == def.tables

Min(a, b) == IF a < b THEN a ELSE b

-----------------------------------------------------------------------------
(* The CSV files and the evaluator *)

\* Condition of a CSV file.  "missing": the file does not exist.  "bad_head":
\* a malformed row among the rows read_csv_auto samples when the view is
\* created.  "bad_tail": a malformed row after that sample, met only when the
\* view is scanned.  "no_col": a well-formed file without a column the
\* queries name.
SrcStatus == {"ok", "missing", "bad_head", "bad_tail", "no_col"}

Faulty(sf) == {t \in TableNames : sf[t] # "ok"}

\* CREATE OR REPLACE VIEW ... read_csv_auto(...) raises: the sample holds a
\* malformed row and errors are not ignored
CreateViewFails(t) == srcFile[t] = "bad_head" /\ read_opts(t) = "strict"

\* a faulty loop: the existence of the file is not checked
StopsUnchecked ==
  {n \in 1..Len(csv_map) : CreateViewFails(csv_map[n][1])}

\* the positions in csv_map of the tables whose loop iteration in init_db
\* raises
Stops ==
  {n \in 1..Len(csv_map) :
     srcFile[csv_map[n][1]] = "missing" \/ CreateViewFails(csv_map[n][1])}

FirstStop == CHOOSE n \in Stops : \A m \in Stops : n <= m

\* a faulty loop: every view reads the file of the first table
ViewsUpToSameFile(n) ==
  [t \in TableNames |-> IF TablePos(t) <= n THEN csv_map[1][2] ELSE "none"]

\* the views init_db has created when it has handled the first n tables
ViewsUpTo(n) ==
  [t \in TableNames |-> IF TablePos(t) <= n THEN csv_map[TablePos(t)][2] ELSE "none"]

\* a scan of the view of t raises on a connection whose views are v
ScanFailsIn(v, t) ==
  IF t \notin TableNames THEN TRUE
  ELSE \/ v[t] = "none"
       \/ srcFile[t] \in {"missing", "no_col"}
       \/ srcFile[t] \in {"bad_head", "bad_tail"} /\ read_opts(t) = "strict"

\* a scan of the view of t raises on the current connection
ScanFails(t) == ScanFailsIn(views, t)

\* the rows of the CSV file of t in data version d, each well-formed or not:
\* "bad_head" spoils the first row, "bad_tail" the last
FileRows(t, d) ==
  [j \in 1..(TablePos(t) + d) |->
     [id |-> j,
      wellformed |-> ~(\/ srcFile[t] = "bad_head" /\ j = 1
                       \/ srcFile[t] = "bad_tail" /\ j = TablePos(t) + d)]]

IsWellFormed(r) == r.wellformed

\* the rows a scan of the view of t yields when it does not raise: with
\* ignore_errors=true read_csv_auto skips the rows it cannot parse
ViewRows(t, d) ==
  IF read_opts(t) = "ignore_errors"
    THEN SelectSeq(FileRows(t, d), IsWellFormed)
    ELSE FileRows(t, d)

\* a faulty body: the statement drops the views it reads
ViewsAfterExecuteDropping(v, k) ==
  [t \in TableNames |-> IF t \in Tables(Entry(k)) THEN "none" ELSE v[t]]

\* the views of the connection after con.execute(sql) for entry k, whether it
\* raised or not: every body is a SELECT or WITH ... SELECT statement
ViewsAfterExecute(v, k) == v

\* con.execute(sql) raises for entry k
QueryFails(k) ==
  \/ EmptyBody(Entry(k))
  \/ \E t \in Tables(Entry(k)) : ScanFails(t)

\* The evaluator is outside the repository: its answer is taken as a
\* function of the query and of the contents of the tables.  The number of
\* rows runs over 0..MaxRows as the entry and the data version vary, and the
\* rows come in an order that is not sorted by value.
RowCount(k, d) == (5 * k + 3 * d) % (MaxRows + 1)

Row(k, d, j) == [c \in 1..Len(Entry(k).columns) |-> (7 * j + k + c * d) % 5]

\* con.execute(sql).fetch_df()
Eval(k, d) ==
  [columns |-> Entry(k).columns,
   rows |-> [j \in 1..RowCount(k, d) |-> Row(k, d, j)]]

-----------------------------------------------------------------------------
(* DataFrame and file operations *)

\* a faulty head: one row too many
headOffByOne(df, n) ==
  [columns |-> df.columns, rows |-> SubSeq(df.rows, 1, Min(n + 1, Len(df.rows)))]

\* DataFrame.head(n)
head(df, n) ==
  [columns |-> df.columns, rows |-> SubSeq(df.rows, 1, Min(n, Len(df.rows)))]

\* a faulty to_csv: the rows after the tenth are dropped
ToCsvTruncated(df) ==
  <<df.columns>> \o SubSeq(df.rows, 1, Min(PreviewRows, Len(df.rows)))

\* DataFrame.to_csv(index=False): the header line, then one line per row
ToCsv(df) == <<df.columns>> \o df.rows

\* a faulty write: an existing file is appended to
WriteFileAppend(f, path, lines) ==
  [p \in DOMAIN f \cup {path} |->
     IF p = path
       THEN (IF path \in DOMAIN f THEN f[path] \o lines ELSE lines)
       ELSE f[p]]

\* a faulty write: the directory is emptied before the file is written
WriteFileAlone(f, path, lines) == [p \in {path} |-> lines]

\* to_csv opens its target for writing: the file is created or replaced,
\* the other files are untouched
WriteFile(f, path, lines) ==
  [p \in DOMAIN f \cup {path} |-> IF p = path THEN lines ELSE f[p]]

\* a faulty derivation: the second replace is missing
SafeNameSpaceOnly(name) ==
  [n \in 1..Len(name) |-> IF name[n] = " " THEN "_" ELSE name[n]]

\* a faulty derivation: the base name is cut to 16 characters
SafeNameCut(name) ==
  [n \in 1..Min(Len(name), 16) |-> IF name[n] \in {" ", "."} THEN "_" ELSE name[n]]

\* name.replace(" ", "_").replace(".", "_")

SafeName(name) ==
  [n \in 1..Len(name) |-> IF name[n] \in {" ", "."} THEN "_" ELSE name[n]]

\* a faulty full path: the base name is cut to its first three characters
full_pathByPrefix(name) ==
  SubSeq(SafeName(name), 1, Min(3, Len(SafeName(name)))) \o <<".", "c", "s", "v">>

\* f"{safe_name}.csv"
full_path(name) == SafeName(name) \o <<".", "c", "s", "v">>

\* a faulty preview path: the same file as the full artifact
preview_pathAsFull(name) == SafeName(name) \o <<".", "c", "s", "v">>

\* f"{safe_name}_preview10.csv"

preview_path(name) ==
  SafeName(name) \o <<"_", "p", "r", "e", "v", "i", "e", "w", "1", "0", ".", "c", "s", "v">>

NoErr == [kind |-> "none", what |-> <<>>]

-----------------------------------------------------------------------------
(* Initial states *)

\* the conditions of the data directory with at most m defective files
SrcConfigs(m) ==
  UNION {{[t \in TableNames |-> IF t \in F THEN a[t] ELSE "ok"] :
            a \in [F -> SrcStatus \ {"ok"}]} :
         F \in {G \in SUBSET TableNames : Cardinality(G) <= m}}

\* the download script has not been run and its directory is empty
NoTargetRun ==
  /\ dl_dir = {}
  /\ todo = {}
  /\ kept = <<>>
  /\ removed = <<>>
  /\ before = {}
  /\ downloaded = {}

\* Before main() is first started: no connection, no output directory.  A
\* missing data directory means every file in it is missing.
InitEnv(m) ==
  /\ pc = "idle"
  /\ i = 1
  /\ runs = 0
  /\ data = 1
  /\ dataDirExists \in BOOLEAN
  /\ srcFile \in IF dataDirExists THEN SrcConfigs(m)
                 ELSE {[t \in TableNames |-> "missing"]}
  /\ defects = IF dataDirExists THEN Cardinality(Faulty(srcFile)) ELSE 1
  /\ views = [t \in TableNames |-> "none"]
  /\ con = FALSE
  /\ outDirExists = FALSE
  /\ fs = [p \in {} |-> <<>>]
  /\ err = NoErr
  /\ attempted = {}
  /\ written = {}
  /\ okLog = <<>>
  /\ matData = [k \in 1..(N + 1) |-> 0]
  /\ inits = 0
  /\ rendered = {}
  /\ shownErrors = {}
  /\ selected_option = "ALL TABLES"

Init ==
  InitEnv(MaxDefects) /\ arg = <<>> /\ res = <<FALSE, <<>>>> /\ injected = NoInjection /\ NoTargetRun

InitIngest ==
  InitEnv(MaxFaulty) /\ arg = <<>> /\ res = <<FALSE, <<>>>> /\ injected = NoInjection /\ NoTargetRun

\* a sound data directory, and one entry put into the list at any position
InitCatalog ==
  /\ InitEnv(0)
  /\ dataDirExists
  /\ arg = <<>>
  /\ res = <<FALSE, <<>>>>
  /\ injected \in [pos : 1..(N + 1), kind : {"empty_name", "empty_body", "unknown_table"}]
  /\ NoTargetRun

-----------------------------------------------------------------------------
(* main(): init_db *)

\* main() is started: con = init_db() opens a fresh in-memory database.  The
\* CSV files are as the earlier run saw them or have been replaced since.
StartMain ==
  /\ pc # "loop"
  /\ runs < MaxRuns
  /\ runs' = runs + 1
  /\ data' \in IF runs = 0 THEN {data} ELSE {data, data + 1}
  /\ attempted' = {}
  /\ written' = {}
  /\ okLog' = <<>>
  /\ UNCHANGED <<defects, dataDirExists, srcFile, outDirExists, fs, matData, arg, res, injected,
                 dashVars, targetVars>>

\* init_db raises FileNotFoundError: DATA_DIR does not exist
InitDbMissingDir ==
  /\ StartMain
  /\ ~dataDirExists
  /\ views' = ViewsUpTo(0)
  /\ con' = FALSE
  /\ err' = [kind |-> "FileNotFoundError", what |-> <<"DATA_DIR">>]
  /\ pc' = "aborted"
  /\ i' = 1

\* init_db raises FileNotFoundError: the loop reaches a table whose file is
\* missing, after creating the views of the tables before it
InitDbMissingFile ==
  /\ StartMain
  /\ dataDirExists
  /\ Stops # {}
  /\ srcFile[csv_map[FirstStop][1]] = "missing"
  /\ views' = ViewsUpTo(FirstStop - 1)
  /\ con' = FALSE
  /\ err' = [kind |-> "FileNotFoundError", what |-> csv_path(csv_map[FirstStop][1])]
  /\ pc' = "aborted"
  /\ i' = 1

\* init_db dies of the error con.execute raises for CREATE OR REPLACE VIEW
InitDbViewFails ==
  /\ StartMain
  /\ dataDirExists
  /\ Stops # {}
  /\ srcFile[csv_map[FirstStop][1]] # "missing"
  /\ views' = ViewsUpTo(FirstStop - 1)
  /\ con' = FALSE
  /\ err' = [kind |-> "duckdb.Error", what |-> csv_path(csv_map[FirstStop][1])]
  /\ pc' = "aborted"
  /\ i' = 1

\* init_db returns the connection with its eight views; main enters its loop
InitDbOk ==
  /\ StartMain
  /\ dataDirExists
  /\ Stops = {}
  /\ views' = ViewsUpTo(Len(csv_map))
  /\ con' = TRUE
  /\ err' = NoErr
  /\ pc' = "loop"
  /\ i' = 1

-----------------------------------------------------------------------------
(* main(): one iteration of  for name, sql in queries: run_and_save(...) *)

\* a faulty failure: the failed write takes the other files with it
TruncateAlone(f, path) == [p \in {path} |-> <<>>]

\* a faulty report: the rows of the preview are counted
OkLineOfPreview(name, result) ==
  [name |-> name, file |-> full_path(name),
   rows |-> Len(head(result, PreviewRows).rows)]

\* print(f"[OK] {name} -> {full_path.name} (rows={len(result)})")
OkLine(name, result) ==
  [name |-> name, file |-> full_path(name), rows |-> Len(result.rows)]

\* the file exists and is empty: it was opened for writing and the write failed
Truncate(f, path) ==
  [p \in DOMAIN f \cup {path} |-> IF p = path THEN <<>> ELSE f[p]]

\* a faulty loop: the error is caught and the loop goes on
RaiseAndGoOn(e) ==
  /\ err' = e
  /\ pc' = IF i = NumEntries THEN "done" ELSE "loop"
  /\ i' = i + 1

\* the error the evaluator or the operating system raises is not caught
\* anywhere in run_and_save or main: it ends the run
Raise(e) ==
  /\ err' = e
  /\ pc' = "aborted"
  /\ i' = i

\* a faulty loop: every second entry is skipped
ReturnSkipping ==
  /\ i' = i + 2
  /\ pc' = IF i >= NumEntries - 1 THEN "done" ELSE "loop"
  /\ err' = err

\* run_and_save returns and the loop goes on to the next entry, or ends
Return ==
  /\ i' = i + 1
  /\ pc' = IF i = NumEntries THEN "done" ELSE "loop"
  /\ err' = err

\* OUTPUT_DIR.mkdir raises: the directory is absent and cannot be created
RunAndSaveMkdirFails ==
  /\ pc = "loop"
  /\ ~outDirExists
  /\ defects < MaxDefects
  /\ defects' = defects + 1
  /\ Raise([kind |-> "OSError", what |-> <<"OUTPUT_DIR">>])
  /\ UNCHANGED <<runs, data, dataDirExists, srcFile, views, con, outDirExists,
                 fs, attempted, written, okLog, matData, arg, res, injected,
                 dashVars, targetVars>>

\* a faulty run_and_save: the full file is opened before the query is executed
RunAndSaveQueryFailsFileOpened ==
  /\ pc = "loop"
  /\ QueryFails(i)
  /\ outDirExists' = TRUE
  /\ attempted' = attempted \cup {i}
  /\ views' = ViewsAfterExecute(views, i)
  /\ fs' = Truncate(fs, full_path(Entry(i).name))
  /\ Raise([kind |-> "duckdb.Error", what |-> Entry(i).name])
  /\ UNCHANGED <<runs, data, defects, dataDirExists, srcFile, con,
                 written, okLog, matData, arg, res, injected,
                 dashVars, targetVars>>

\* con.execute(sql) raises, after the directory has been created
RunAndSaveQueryFails ==
  /\ pc = "loop"
  /\ QueryFails(i)
  /\ outDirExists' = TRUE
  /\ attempted' = attempted \cup {i}
  /\ views' = ViewsAfterExecute(views, i)
  /\ Raise([kind |-> "duckdb.Error", what |-> Entry(i).name])
  /\ UNCHANGED <<runs, data, defects, dataDirExists, srcFile, con,
                 fs, written, okLog, matData, arg, res, injected,
                 dashVars, targetVars>>

\* result.to_csv(full_path) raises: the file could not be opened (it stays as
\* it was) or was opened and could not be written (it is left empty)
RunAndSaveFullWriteFails ==
  /\ pc = "loop"
  /\ ~QueryFails(i)
  /\ defects < MaxDefects
  /\ defects' = defects + 1
  /\ outDirExists' = TRUE
  /\ attempted' = attempted \cup {i}
  /\ views' = ViewsAfterExecute(views, i)
  /\ \E opened \in BOOLEAN :
       /\ fs' = IF opened THEN Truncate(fs, full_path(Entry(i).name)) ELSE fs
       /\ matData' = IF opened THEN [matData EXCEPT ![i] = 0] ELSE matData
  /\ Raise([kind |-> "OSError", what |-> full_path(Entry(i).name)])
  /\ UNCHANGED <<runs, data, dataDirExists, srcFile, con, written,
                 okLog, arg, res, injected,
                 dashVars, targetVars>>

\* result.head(10).to_csv(preview_path) raises, after the full file has been
\* written
RunAndSavePreviewWriteFails ==
  /\ pc = "loop"
  /\ ~QueryFails(i)
  /\ defects < MaxDefects
  /\ defects' = defects + 1
  /\ outDirExists' = TRUE
  /\ attempted' = attempted \cup {i}
  /\ views' = ViewsAfterExecute(views, i)
  /\ LET name == Entry(i).name
         result == Eval(i, data)
         withFull == WriteFile(fs, full_path(name), ToCsv(result))
     IN \E opened \in BOOLEAN :
          /\ fs' = IF opened THEN Truncate(withFull, preview_path(name)) ELSE withFull
          /\ matData' = IF ~opened /\ matData[i] = data THEN matData
                        ELSE [matData EXCEPT ![i] = 0]
  /\ written' = written \cup {full_path(Entry(i).name)}
  /\ Raise([kind |-> "OSError", what |-> preview_path(Entry(i).name)])
  /\ UNCHANGED <<runs, data, dataDirExists, srcFile, con, okLog, arg, res, injected,
                 dashVars, targetVars>>

\* run_and_save runs to its end: mkdir, execute, both files written, the
\* [OK] line printed
RunAndSaveOk ==
  /\ pc = "loop"
  /\ ~QueryFails(i)
  /\ outDirExists' = TRUE
  /\ attempted' = attempted \cup {i}
  /\ views' = ViewsAfterExecute(views, i)
  /\ LET name == Entry(i).name
         result == Eval(i, data)
         withFull == WriteFile(fs, full_path(name), ToCsv(result))
     IN /\ fs' = WriteFile(withFull, preview_path(name), ToCsv(head(result, PreviewRows)))
        /\ written' = written \cup {full_path(name), preview_path(name)}
        /\ okLog' = Append(okLog, OkLine(name, result))
  /\ matData' = [matData EXCEPT ![i] = data]
  /\ Return
  /\ UNCHANGED <<runs, data, defects, dataDirExists, srcFile, con, arg, res, injected,
                 dashVars, targetVars>>

Next ==
  \/ InitDbMissingDir
  \/ InitDbMissingFile
  \/ InitDbViewFails
  \/ InitDbOk
  \/ RunAndSaveMkdirFails
  \/ RunAndSaveQueryFails
  \/ RunAndSaveFullWriteFails
  \/ RunAndSavePreviewWriteFails
  \/ RunAndSaveOk

Spec == Init /\ [][Next]_vars

\* the runs over a data directory with up to MaxFaulty defective files, the
\* operating system refusing nothing
NextIngest ==
  \/ InitDbMissingDir
  \/ InitDbMissingFile
  \/ InitDbViewFails
  \/ InitDbOk
  \/ RunAndSaveQueryFails
  \/ RunAndSaveOk

SpecIngest == InitIngest /\ [][NextIngest]_vars

\* between two runs a sound CSV file is replaced by a defective one or
\* deleted
SourceSpoiled ==
  /\ pc = "done"
  /\ defects < MaxDefects
  /\ defects' = defects + 1
  /\ \E t \in TableNames, st \in SrcStatus \ {"ok"} :
       /\ srcFile[t] = "ok"
       /\ srcFile' = [srcFile EXCEPT ![t] = st]
  /\ UNCHANGED <<pc, i, runs, data, dataDirExists, views, con, outDirExists,
                 fs, err, attempted, written, okLog, matData, arg, res,
                 injected, dashVars, targetVars>>

\* runs of main() over a data directory that may change between two runs,
\* the operating system refusing nothing
NextRerun ==
  \/ SourceSpoiled
  \/ InitDbMissingFile
  \/ InitDbViewFails
  \/ InitDbOk
  \/ RunAndSaveQueryFails
  \/ RunAndSaveOk

InitRerun ==
  /\ InitEnv(MaxDefects)
  /\ dataDirExists
  /\ arg = <<>>
  /\ res = <<FALSE, <<>>>>
  /\ injected = NoInjection /\ NoTargetRun

SpecRerun == InitRerun /\ [][NextRerun]_vars

\* the runs over a sound data directory of the list with an entry put in
NextCatalog ==
  \/ InitDbOk
  \/ RunAndSaveQueryFails
  \/ RunAndSaveOk

SpecCatalog == InitCatalog /\ [][NextCatalog]_vars

-----------------------------------------------------------------------------
(* The base-name derivation of run_and_save on its own *)

\* characters the names of SpecNames are built from: a letter, a digit, the
\* two characters run_and_save replaces, and other white space and punctuation
Alphabet == {"a", "1", " ", ".", "\t", "-", "/", "_"}

Whitespace == {" ", "\t"}

Punctuation == {".", "-", "/", "_"}

NamesUpTo(n) == UNION {[1..m -> Alphabet] : m \in 0..n}

\* arg is either two names of the catalog or one name over Alphabet
InitNames ==
  /\ InitEnv(0)
  /\ dataDirExists
  /\ arg \in {<<queries[a].name, queries[b].name>> : a, b \in 1..N}
             \cup {<<s>> : s \in NamesUpTo(MaxNameLen)}
  /\ res = <<FALSE, <<>>>>
  /\ injected = NoInjection /\ NoTargetRun

\* safe_name = name.replace(" ", "_").replace(".", "_") for each name of arg
DeriveBaseNames ==
  /\ ~res[1]
  /\ res' = <<TRUE, [n \in 1..Len(arg) |-> SafeName(arg[n])]>>
  /\ UNCHANGED <<pc, i, runs, data, defects, dataDirExists, srcFile, views, con,
                 outDirExists, fs, err, attempted, written, okLog, matData, arg,
                 injected,
                 dashVars, targetVars>>

SpecNames == InitNames /\ [][DeriveBaseNames]_vars

-----------------------------------------------------------------------------
(* Entry 1, 1_2_orders_time_range, over a concrete orders table.  A purchase
   timestamp is <<year, month, day, hour>>. *)

IsLeap(y) == (y % 4 = 0 /\ y % 100 # 0) \/ y % 400 = 0

DaysInMonth(y, m) ==
  IF m = 2 THEN (IF IsLeap(y) THEN 29 ELSE 28)
  ELSE IF m \in {4, 6, 9, 11} THEN 30 ELSE 31

RECURSIVE DaysBeforeMonth(_, _)
DaysBeforeMonth(y, m) ==
  IF m = 1 THEN 0 ELSE DaysBeforeMonth(y, m - 1) + DaysInMonth(y, m - 1)

RECURSIVE DaysBeforeYear(_)
DaysBeforeYear(y) ==
  IF y <= 2016 THEN 0
  ELSE DaysBeforeYear(y - 1) + (IF IsLeap(y - 1) THEN 366 ELSE 365)

\* the number of the calendar day of a timestamp, 2016-01-01 being day 0
DayNumber(ts) == DaysBeforeYear(ts[1]) + DaysBeforeMonth(ts[1], ts[2]) + ts[3] - 1

\* a faulty difference: both end days are counted
date_diffInclusive(a, b) == DayNumber(b) - DayNumber(a) + 1

\* date_diff('day', a, b): the number of day boundaries between a and b,
\* whatever their times of day
date_diff(a, b) == DayNumber(b) - DayNumber(a)

\* a is not later than b
TsLeq(a, b) ==
  \/ DayNumber(a) < DayNumber(b)
  \/ DayNumber(a) = DayNumber(b) /\ a[4] <= b[4]

MinTs(S) == CHOOSE a \in S : \A b \in S : TsLeq(a, b)

MaxTs(S) == CHOOSE a \in S : \A b \in S : TsLeq(b, a)

\* the rows of SELECT MIN(..), MAX(..), date_diff('day', MIN(..), MAX(..))
\* FROM orders: one row, of NULLs when orders has no row
orders_time_range(S) ==
  IF S = {}
    THEN <<[first_order_date |-> "NULL", last_order_date |-> "NULL",
            total_days |-> "NULL"]>>
    ELSE <<[first_order_date |-> MinTs(S), last_order_date |-> MaxTs(S),
            total_days |-> date_diff(MinTs(S), MaxTs(S))]>>

\* purchase timestamps on, between and outside 2017-01-03 and 2018-10-11
Timestamps ==
  {<<2016, 12, 31, 23>>, <<2017, 1, 3, 0>>, <<2017, 1, 3, 23>>,
   <<2017, 2, 28, 12>>, <<2017, 12, 31, 23>>, <<2018, 1, 1, 0>>,
   <<2018, 10, 11, 1>>, <<2018, 10, 11, 23>>, <<2018, 10, 12, 0>>}

\* arg is the set of the purchase timestamps of an orders table
InitTimeRange ==
  /\ InitEnv(0)
  /\ dataDirExists
  /\ arg \in {S \in SUBSET Timestamps : Cardinality(S) <= MaxOrders}
  /\ res = <<FALSE, <<>>>>
  /\ injected = NoInjection /\ NoTargetRun

\* con.execute(sql).fetch_df() for entry 1 over the orders table arg
ExecuteTimeRange ==
  /\ ~res[1]
  /\ res' = <<TRUE, orders_time_range(arg)>>
  /\ UNCHANGED <<pc, i, runs, data, defects, dataDirExists, srcFile, views, con,
                 outDirExists, fs, err, attempted, written, okLog, matData, arg,
                 injected,
                 dashVars, targetVars>>

SpecTimeRange == InitTimeRange /\ [][ExecuteTimeRange]_vars

-----------------------------------------------------------------------------
(* Entry 18, 6_2_orders_by_installments, over a concrete payments table.  A
   row of payments is <<order_id, payment_sequential, payment_installments>>. *)

\* ORDER BY payment_installments: the values of S in ascending order
RECURSIVE SortAsc(_)
SortAsc(S) ==
  IF S = {} THEN <<>>
  ELSE LET least == CHOOSE a \in S : \A b \in S : a <= b
       IN <<least>> \o SortAsc(S \ {least})

\* a faulty aggregate: COUNT(*), the payment rows of the group
count_rows(G) == Cardinality(G)

\* COUNT(DISTINCT order_id) over the rows G of a group
count_distinct_order_id(G) == Cardinality({r[1] : r \in G})

\* SELECT payment_installments, COUNT(DISTINCT order_id) FROM payments
\* GROUP BY payment_installments ORDER BY payment_installments
orders_by_installments(P) ==
  LET groups == SortAsc({r[3] : r \in P})
  IN [j \in 1..Len(groups) |->
        <<groups[j], count_distinct_order_id({r \in P : r[3] = groups[j]})>>]

\* payment rows of four orders, the first order paying in up to two payments
PaymentRows ==
  {<<o, 1, n>> : o \in 1..4, n \in 1..3} \cup {<<1, 2, n>> : n \in 1..3}

\* arg is the set of the rows of a payments table
InitInstallments ==
  /\ InitEnv(0)
  /\ dataDirExists
  /\ arg \in {P \in SUBSET PaymentRows : Cardinality(P) <= MaxPayments}
  /\ res = <<FALSE, <<>>>>
  /\ injected = NoInjection /\ NoTargetRun

\* con.execute(sql).fetch_df() for entry 18 over the payments table arg
ExecuteInstallments ==
  /\ ~res[1]
  /\ res' = <<TRUE, orders_by_installments(arg)>>
  /\ UNCHANGED <<pc, i, runs, data, defects, dataDirExists, srcFile, views, con,
                 outDirExists, fs, err, attempted, written, okLog, matData, arg,
                 injected,
                 dashVars, targetVars>>

SpecInstallments == InitInstallments /\ [][ExecuteInstallments]_vars

-----------------------------------------------------------------------------
(* Entry 5, 2_3_time_of_day_distribution, over a concrete orders table.  The
   purchase timestamp of an order is <<h>>, h its hour, or <<>> for NULL. *)

\* x BETWEEN lo AND hi
Between(x, lo, hi) == lo <= x /\ x <= hi

\* a faulty classification: the upper end of each range is left out
time_of_dayHalfOpen(ts) ==
  IF ts = <<>> THEN "NULL"
  ELSE IF 0 <= ts[1] /\ ts[1] < 6 THEN "Dawn"
  ELSE IF 7 <= ts[1] /\ ts[1] < 12 THEN "Morning"
  ELSE IF 13 <= ts[1] /\ ts[1] < 18 THEN "Afternoon"
  ELSE IF 19 <= ts[1] /\ ts[1] < 23 THEN "Night"
  ELSE "NULL"

\* CASE WHEN EXTRACT(hour FROM ts) BETWEEN .. THEN .. END: the first WHEN
\* that holds; NULL when none does, as for a NULL timestamp
time_of_day(ts) ==
  IF ts = <<>> THEN "NULL"
  ELSE IF Between(ts[1], 0, 6) THEN "Dawn"
  ELSE IF Between(ts[1], 7, 12) THEN "Morning"
  ELSE IF Between(ts[1], 13, 18) THEN "Afternoon"
  ELSE IF Between(ts[1], 19, 23) THEN "Night"
  ELSE "NULL"

\* ROUND(c * 100.0 / total, 2), in hundredths
Percentage(c, total) == (2 * 10000 * c + total) \div (2 * total)

\* SELECT time_of_day, COUNT(*), ROUND(..) FROM classified GROUP BY
\* time_of_day: the rows, as a set (rows of equal count come in any order)
time_of_day_distribution(O) ==
  {[time_of_day |-> c,
    order_count |-> Cardinality({n \in DOMAIN O : time_of_day(O[n]) = c}),
    percentage |-> Percentage(Cardinality({n \in DOMAIN O : time_of_day(O[n]) = c}),
                              Len(O))] :
     c \in {time_of_day(O[n]) : n \in DOMAIN O}}

\* the purchase timestamps: every hour of the day, and NULL
HourStamps == {<<h>> : h \in 0..23} \cup {<<>>}

\* arg is the column order_purchase_timestamp of an orders table
InitTimeOfDay ==
  /\ InitEnv(0)
  /\ dataDirExists
  /\ arg \in UNION {[1..n -> HourStamps] : n \in 0..MaxHourRows}
  /\ res = <<FALSE, <<>>>>
  /\ injected = NoInjection /\ NoTargetRun

\* con.execute(sql).fetch_df() for entry 5 over the orders table arg
ExecuteTimeOfDay ==
  /\ ~res[1]
  /\ res' = <<TRUE, time_of_day_distribution(arg)>>
  /\ UNCHANGED <<pc, i, runs, data, defects, dataDirExists, srcFile, views, con,
                 outDirExists, fs, err, attempted, written, okLog, matData, arg,
                 injected, dashVars, targetVars>>

SpecTimeOfDay == InitTimeOfDay /\ [][ExecuteTimeOfDay]_vars

-----------------------------------------------------------------------------
(* The download script, Target.py.  pc and err are those of the script. *)

\* the entries that may stand in OUTPUT_DIR: regular files and directories,
\* a directory with the names of the files in it
DirEntries ==
  {[name |-> <<"a", ".", "c", "s", "v">>, kind |-> "file", inside |-> {}],
   [name |-> <<"B", ".", "C", "S", "V">>, kind |-> "file", inside |-> {}],
   [name |-> <<"n", ".", "t", "x", "t">>, kind |-> "file", inside |-> {}],
   [name |-> <<".", "c", "s", "v">>, kind |-> "file", inside |-> {}],
   [name |-> <<"c", "s", "v">>, kind |-> "file", inside |-> {}],
   [name |-> <<"s", "u", "b">>, kind |-> "dir",
    inside |-> {<<"n", ".", "t", "x", "t">>, <<"a", ".", "c", "s", "v">>}],
   [name |-> <<"d", ".", "c", "s", "v">>, kind |-> "dir", inside |-> {}]}

\* str.lower() on one character
Lower(c) ==
  CASE c = "B" -> "b"
    [] c = "C" -> "c"
    [] c = "S" -> "s"
    [] c = "V" -> "v"
    [] OTHER -> c

\* fname.lower()
LowerName(name) == [n \in 1..Len(name) |-> Lower(name[n])]

\* a faulty test: endswith("csv")
EndsWithCsvNoDot(name) ==
  /\ Len(name) >= 3
  /\ SubSeq(name, Len(name) - 2, Len(name)) = <<"c", "s", "v">>

\* name.endswith(".csv")
EndsWithCsv(name) ==
  /\ Len(name) >= 4
  /\ SubSeq(name, Len(name) - 3, Len(name)) = <<".", "c", "s", "v">>

\* the entry of OUTPUT_DIR of name f
EntryNamed(f) == CHOOSE e \in dl_dir : e.name = f

\* os.path.isfile(full_path)
IsFile(f) == EntryNamed(f).kind = "file"

\* OUTPUT_DIR holds some entries, or none, before the script is run
InitTarget ==
  /\ InitEnv(0)
  /\ dataDirExists
  /\ arg = <<>>
  /\ res = <<FALSE, <<>>>>
  /\ injected = NoInjection
  /\ before \in {S \in SUBSET DirEntries : Cardinality(S) <= MaxDirEntries}
  /\ dl_dir = before
  /\ downloaded = {}
  /\ todo = {}
  /\ kept = <<>>
  /\ removed = <<>>

\* main(): makedirs, the download adds entries D, then kept, removed = [], []
\* and os.listdir(OUTPUT_DIR) is taken
TargetDownload ==
  /\ pc = "idle"
  /\ \E D \in SUBSET (DirEntries \ dl_dir) :
       /\ Cardinality(dl_dir \cup D) <= MaxDirEntries
       /\ downloaded' = D
       /\ dl_dir' = dl_dir \cup D
       /\ todo' = {e.name : e \in dl_dir \cup D}
       /\ pc' = IF dl_dir \cup D = {} THEN "done" ELSE "cleanup"
  /\ kept' = <<>>
  /\ removed' = <<>>
  /\ UNCHANGED <<i, runs, data, defects, dataDirExists, srcFile, views, con,
                 outDirExists, fs, err, attempted, written, okLog, matData,
                 arg, res, injected, before, dashVars>>

\* main(): gdown.download_folder raises after adding the entries D
TargetDownloadFails ==
  /\ pc = "idle"
  /\ \E D \in SUBSET (DirEntries \ dl_dir) :
       /\ Cardinality(dl_dir \cup D) <= MaxDirEntries
       /\ downloaded' = D
       /\ dl_dir' = dl_dir \cup D
  /\ pc' = "aborted"
  /\ err' = [kind |-> "gdown", what |-> <<>>]
  /\ UNCHANGED <<i, runs, data, defects, dataDirExists, srcFile, views, con,
                 outDirExists, fs, attempted, written, okLog, matData, arg,
                 res, injected, before, todo, kept, removed, dashVars>>

\* the loop goes on to the next name of the listing, or ends
NextName(f) ==
  /\ todo' = todo \ {f}
  /\ pc' = IF todo = {f} THEN "done" ELSE "cleanup"

\* one iteration: a regular file whose lowered name ends in .csv is kept
TargetKeep ==
  /\ pc = "cleanup"
  /\ \E f \in todo :
       /\ IsFile(f)
       /\ EndsWithCsv(LowerName(f))
       /\ kept' = Append(kept, f)
       /\ NextName(f)
  /\ UNCHANGED <<i, runs, data, defects, dataDirExists, srcFile, views, con,
                 outDirExists, fs, err, attempted, written, okLog, matData,
                 arg, res, injected, dl_dir, removed, before, downloaded,
                 dashVars>>

\* one iteration: any other regular file is removed
TargetRemove ==
  /\ pc = "cleanup"
  /\ \E f \in todo :
       /\ IsFile(f)
       /\ ~EndsWithCsv(LowerName(f))
       /\ dl_dir' = dl_dir \ {EntryNamed(f)}
       /\ removed' = Append(removed, f)
       /\ NextName(f)
  /\ UNCHANGED <<i, runs, data, defects, dataDirExists, srcFile, views, con,
                 outDirExists, fs, err, attempted, written, okLog, matData,
                 arg, res, injected, kept, before, downloaded, dashVars>>

\* one iteration: os.remove raises and the script dies in the loop
TargetRemoveFails ==
  /\ pc = "cleanup"
  /\ \E f \in todo :
       /\ IsFile(f)
       /\ ~EndsWithCsv(LowerName(f))
       /\ err' = [kind |-> "OSError", what |-> f]
  /\ pc' = "aborted"
  /\ UNCHANGED <<i, runs, data, defects, dataDirExists, srcFile, views, con,
                 outDirExists, fs, attempted, written, okLog, matData, arg,
                 res, injected, targetVars, dashVars>>

\* one iteration: what is not a regular file is passed over
TargetSkip ==
  /\ pc = "cleanup"
  /\ \E f \in todo :
       /\ ~IsFile(f)
       /\ NextName(f)
  /\ UNCHANGED <<i, runs, data, defects, dataDirExists, srcFile, views, con,
                 outDirExists, fs, err, attempted, written, okLog, matData,
                 arg, res, injected, dl_dir, kept, removed, before, downloaded,
                 dashVars>>

NextTarget ==
  \/ TargetDownload
  \/ TargetDownloadFails
  \/ TargetKeep
  \/ TargetRemove
  \/ TargetRemoveFails
  \/ TargetSkip

SpecTarget == InitTarget /\ [][NextTarget]_vars

-----------------------------------------------------------------------------
(* The dashboard, streamlit_app.py: one process, whose script is run from
   top to bottom at every render pass.  pc, i, runs, err, views and con are
   those of the dashboard process: its position, the site the pass stands
   before, the passes started, the exception that ended the pass, and the
   connection get_connection has cached. *)

\* the run_query calls of main() before the raw-table tab, in the order of
\* the script: the line of the call, its tab, whether it stands in a try
\* block with  except Exception,  and the tables its body reads
query_sites ==
  << [line |-> 396, tab |-> "tab_overview", caught |-> FALSE,
      tables |-> {"orders"}],
     [line |-> 434, tab |-> "tab_overview", caught |-> FALSE,
      tables |-> {"customers", "orders", "sellers"}],
     [line |-> 504, tab |-> "tab_overview", caught |-> FALSE,
      tables |-> {"orders"}],
     [line |-> 531, tab |-> "tab_overview", caught |-> FALSE,
      tables |-> {"orders"}],
     [line |-> 573, tab |-> "tab_orders", caught |-> FALSE,
      tables |-> {"orders"}],
     [line |-> 619, tab |-> "tab_orders", caught |-> FALSE,
      tables |-> {"orders"}],
     [line |-> 664, tab |-> "tab_geo", caught |-> FALSE,
      tables |-> {"customers"}],
     [line |-> 716, tab |-> "tab_geo", caught |-> FALSE,
      tables |-> {"customers", "orders"}],
     [line |-> 740, tab |-> "tab_econ", caught |-> FALSE,
      tables |-> {"orders", "payments"}],
     [line |-> 806, tab |-> "tab_econ", caught |-> FALSE,
      tables |-> {"customers", "order_items", "orders"}],
     [line |-> 833, tab |-> "tab_econ", caught |-> FALSE,
      tables |-> {"customers", "order_items", "orders"}],
     [line |-> 864, tab |-> "tab_delivery", caught |-> FALSE,
      tables |-> {"orders"}],
     [line |-> 898, tab |-> "tab_delivery", caught |-> FALSE,
      tables |-> {"customers", "order_items", "orders"}],
     [line |-> 928, tab |-> "tab_delivery", caught |-> FALSE,
      tables |-> {"customers", "orders"}],
     [line |-> 946, tab |-> "tab_delivery", caught |-> FALSE,
      tables |-> {"customers", "orders"}],
     [line |-> 994, tab |-> "tab_pay", caught |-> FALSE,
      tables |-> {"orders", "payments"}],
     [line |-> 1033, tab |-> "tab_pay", caught |-> FALSE,
      tables |-> {"payments"}],
     [line |-> 1074, tab |-> "tab_prod", caught |-> TRUE,
      tables |-> {"order_items", "products"}],
     [line |-> 1110, tab |-> "tab_prod", caught |-> TRUE,
      tables |-> {"reviews"}],
     [line |-> 1163, tab |-> "tab_prod", caught |-> TRUE,
      tables |-> {"order_items"}] >>

table_options ==
  <<"customers", "sellers", "order_items", "geolocation", "payments",
    "reviews", "orders", "products">>

\* tables_to_show = table_options if selected_option == "ALL TABLES"
\*                  else [selected_option]
tables_to_show(sel) == IF sel = "ALL TABLES" THEN table_options ELSE <<sel>>

\* the run_query calls of a render pass: those of the tabs, then one in a
\* try block for each table of the raw-table tab
RenderSites(sel) ==
  query_sites \o
  [n \in 1..Len(tables_to_show(sel)) |->
     [line |-> 1255, tab |-> "tab_raw", caught |-> TRUE,
      tables |-> {tables_to_show(sel)[n]}]]

\* the options of the selectbox the passes choose from
Options == {"ALL TABLES", "orders", "reviews"}

\* a faulty get_connection: nothing is cached
CacheHitNever == FALSE

\* @st.cache_resource: get_connection returns the connection of its first
\* call that returned, without running init_db
CacheHit == con

InitDashboard ==
  InitEnv(MaxDefects) /\ arg = <<>> /\ res = <<FALSE, <<>>>> /\ injected = NoInjection /\ NoTargetRun

\* the script is run again; a CSV file may have been deleted since
DashStartPass ==
  /\ pc \in {"idle", "shown", "crashed"}
  /\ runs < MaxRuns
  /\ runs' = runs + 1
  /\ pc' = "render"
  /\ i' = 1
  /\ err' = NoErr
  /\ rendered' = {}
  /\ shownErrors' = {}
  /\ selected_option' \in Options
  /\ \/ UNCHANGED <<srcFile, defects>>
     \/ /\ dataDirExists
        /\ defects < MaxDefects
        /\ defects' = defects + 1
        /\ \E t \in TableNames :
             /\ srcFile[t] = "ok"
             /\ srcFile' = [srcFile EXCEPT ![t] = "missing"]
  /\ UNCHANGED <<data, dataDirExists, views, con, outDirExists, fs, attempted,
                 written, okLog, matData, arg, res, injected, inits,
                 targetVars>>

\* the call at site i returned: the pass goes on to the next site, or ends
SiteDone ==
  /\ i' = i + 1
  /\ pc' = IF i = Len(RenderSites(selected_option)) THEN "shown" ELSE "render"
  /\ err' = err

\* run_query at site i raised e: in a try block the error is shown and the
\* pass goes on; elsewhere the exception leaves main() and ends the pass
SiteRaises(e) ==
  IF RenderSites(selected_option)[i].caught
    THEN /\ shownErrors' = shownErrors \cup {i}
         /\ SiteDone
    ELSE /\ shownErrors' = shownErrors
         /\ pc' = "crashed"
         /\ i' = i
         /\ err' = e

\* run_query: get_connection runs init_db, which raises; nothing is cached
RunQueryInitFails ==
  /\ pc = "render"
  /\ ~CacheHit
  /\ ~dataDirExists \/ Stops # {}
  /\ inits' = inits + 1
  /\ con' = FALSE
  /\ SiteRaises([kind |-> "init_db", what |-> <<>>])
  /\ UNCHANGED <<runs, data, defects, dataDirExists, srcFile, views,
                 outDirExists, fs, attempted, written, okLog, matData, arg,
                 res, injected, rendered, selected_option,
                 targetVars>>

\* run_query: get_connection returns the cached connection, or runs init_db
\* and caches what it returns; con.execute(sql) raises
RunQueryFails ==
  /\ pc = "render"
  /\ CacheHit \/ (dataDirExists /\ Stops = {})
  /\ LET v == IF CacheHit THEN views ELSE ViewsUpTo(Len(csv_map))
     IN /\ \E t \in RenderSites(selected_option)[i].tables : ScanFailsIn(v, t)
        /\ views' = v
  /\ inits' = IF CacheHit THEN inits ELSE inits + 1
  /\ con' = TRUE
  /\ SiteRaises([kind |-> "duckdb.Error", what |-> <<>>])
  /\ UNCHANGED <<runs, data, defects, dataDirExists, srcFile, outDirExists,
                 fs, attempted, written, okLog, matData, arg, res, injected,
                 rendered, selected_option,
                 targetVars>>

\* run_query returns the rows and the section is rendered
RunQueryOk ==
  /\ pc = "render"
  /\ CacheHit \/ (dataDirExists /\ Stops = {})
  /\ LET v == IF CacheHit THEN views ELSE ViewsUpTo(Len(csv_map))
     IN /\ \A t \in RenderSites(selected_option)[i].tables : ~ScanFailsIn(v, t)
        /\ views' = v
  /\ inits' = IF CacheHit THEN inits ELSE inits + 1
  /\ con' = TRUE
  /\ rendered' = rendered \cup {i}
  /\ SiteDone
  /\ UNCHANGED <<runs, data, defects, dataDirExists, srcFile, outDirExists,
                 fs, attempted, written, okLog, matData, arg, res, injected,
                 shownErrors, selected_option,
                 targetVars>>

NextDashboard ==
  \/ DashStartPass
  \/ RunQueryInitFails
  \/ RunQueryFails
  \/ RunQueryOk

SpecDashboard == InitDashboard /\ [][NextDashboard]_vars

-----------------------------------------------------------------------------
(* Properties *)

Ended == pc \in {"done", "aborted"}

QueryName(k) == queries[k].name

\* both artifacts of entry k have been written by the current run
Materialized(k) ==
  {full_path(QueryName(k)), preview_path(QueryName(k))} \subseteq written

\* C1: in a run where ingestion succeeded, a failing query does not abort the
\* run: the run ends having attempted all 23 entries, and every entry whose
\* query does not fail has its full and preview artifacts written.
C1_QueryFailureIsolated ==
  (Ended /\ con /\ err.kind \in {"none", "duckdb.Error"}) =>
    /\ N = 23
    /\ attempted = 1..N
    /\ \A k \in 1..N : ~QueryFails(k) => Materialized(k)

\* C2: a failure to create the output directory or to write an artifact for
\* one entry is confined to that entry: every later entry is still executed
\* and materialized in the same run.
C2_OutputFailureIsolated ==
  (Ended /\ con /\ err.kind = "OSError") =>
    \A k \in (i + 1)..N : k \in attempted /\ Materialized(k)

MissingSource == ~dataDirExists \/ \E t \in TableNames : srcFile[t] = "missing"

\* the path names the data directory or a CSV file that does not exist
NamesMissingPath(p) ==
  \/ ~dataDirExists /\ p = <<"DATA_DIR">>
  \/ \E t \in TableNames : srcFile[t] = "missing" /\ p = csv_path(t)

\* the run has died in init_db: no connection, no query, no artifact
AbortedInIngestion ==
  /\ pc = "aborted"
  /\ ~con
  /\ attempted = {}
  /\ written = {}
  /\ DOMAIN fs = {}
  /\ ~outDirExists

\* a table before every missing one in csv_map whose view creation raises
ViewFailsBeforeMissing ==
  /\ dataDirExists
  /\ \E t \in TableNames :
       /\ CreateViewFails(t)
       /\ \A u \in TableNames : srcFile[u] = "missing" => TablePos(t) < TablePos(u)

\* C3 as stated: whenever the data directory or the file of any table is
\* missing, a started run has died in init_db of an error naming a missing
\* path, with no connection, no query executed and no artifact written.
C3_MissingSourceNamed ==
  (runs > 0 /\ MissingSource) =>
    /\ AbortedInIngestion
    /\ err.kind = "FileNotFoundError"
    /\ NamesMissingPath(err.what)

\* C3 amended: whenever the data directory or the file of any table is
\* missing, a started run has died in init_db with no connection, no query
\* executed and no artifact written; the error is a FileNotFoundError naming a
\* missing path unless the view of a table earlier in csv_map could not be
\* created, and then it is the evaluator's error for that view.
C3_AllOrNothing ==
  (runs > 0 /\ MissingSource) =>
    /\ AbortedInIngestion
    /\ ~ViewFailsBeforeMissing =>
         err.kind = "FileNotFoundError" /\ NamesMissingPath(err.what)
    /\ ViewFailsBeforeMissing => err.kind = "duckdb.Error"

C3_Witness ==
  /\ runs > 0
  /\ dataDirExists
  /\ srcFile["orders"] = "missing"
  /\ err = [kind |-> "FileNotFoundError", what |-> <<"DATA_DIR", "orders.csv">>]

\* C4: the preview artifact run_and_save writes holds the header and exactly
\* the first min(10, R) rows of the full artifact, in the same order, R being
\* the number of rows of the query result.
C4_PreviewLaw ==
  \A k \in 1..N :
    preview_path(QueryName(k)) \in written =>
      /\ full_path(QueryName(k)) \in DOMAIN fs
      /\ LET full == fs[full_path(QueryName(k))]
             prev == fs[preview_path(QueryName(k))]
             R == Len(Eval(k, data).rows)
         IN /\ Len(full) = R + 1
            /\ Len(prev) = Min(10, R) + 1
            /\ \A n \in 1..Len(prev) : prev[n] = full[n]

C4_Witness ==
  \E k \in 1..N :
    /\ preview_path(QueryName(k)) \in written
    /\ Len(fs[full_path(QueryName(k))]) > 12
    /\ Len(fs[preview_path(QueryName(k))]) = 11

\* C5: the full artifact holds the header and every row of the query result
\* in the evaluator's order: nothing is truncated, filtered or re-sorted.
C5_FullIsWholeResult ==
  \A k \in 1..N :
    full_path(QueryName(k)) \in written =>
      LET full == fs[full_path(QueryName(k))]
          result == Eval(k, data)
      IN /\ Len(full) = Len(result.rows) + 1
         /\ full[1] = result.columns
         /\ \A j \in 1..Len(result.rows) : full[j + 1] = result.rows[j]

C5_Witness ==
  \E k \in 1..N :
    /\ full_path(QueryName(k)) \in written
    /\ Len(Eval(k, data).rows) > 10
    /\ \E j \in 1..(Len(Eval(k, data).rows) - 1) :
         fs[full_path(QueryName(k))][j + 1][1] > fs[full_path(QueryName(k))][j + 2][1]

\* C6: when run_and_save succeeds for an entry whose two artifacts were last
\* written by a successful run_and_save from the same table contents, the
\* output directory is left exactly as it was: the same files with the same
\* lines (a write replaces, it never appends), and no further file.
C6_Idempotent ==
  [][(pc = "loop" /\ matData[i] = data /\ Len(okLog') > Len(okLog)) =>
       (fs' = fs /\ outDirExists' = outDirExists)]_vars

\* a second run over unchanged tables has rewritten every artifact of a
\* complete first run
C6_Witness ==
  /\ runs = 2
  /\ data = 1
  /\ defects = 0
  /\ pc = "done"
  /\ Len(okLog) = N

\* C7: over the names of the catalog the base-name derivation is injective.
C7_CatalogNamesInjective ==
  (res[1] /\ Len(arg) = 2 /\ arg[1] # arg[2]) => res[2][1] # res[2][2]

C7_Witness ==
  /\ res[1]
  /\ Len(arg) = 2
  /\ arg[1] # arg[2]
  /\ \E a, b \in 1..N : arg = <<QueryName(a), QueryName(b)>>

\* C8 as stated: every white-space and every punctuation character of the
\* name is replaced by "_" and every other character is kept, so the base
\* name holds no white space and no punctuation other than "_".
C8_AllUnsafeReplaced ==
  (res[1] /\ Len(arg) = 1) =>
    /\ Len(res[2][1]) = Len(arg[1])
    /\ \A n \in 1..Len(arg[1]) :
         res[2][1][n] = IF arg[1][n] \in Whitespace \cup Punctuation
                          THEN "_" ELSE arg[1][n]
    /\ \A n \in 1..Len(res[2][1]) :
         res[2][1][n] \notin (Whitespace \cup Punctuation) \ {"_"}

\* C8 amended: every " " and every "." of the name is replaced by "_" and
\* every other character is kept, so the base name holds no " " and no ".".
C8_SpaceAndDotReplaced ==
  (res[1] /\ Len(arg) = 1) =>
    /\ Len(res[2][1]) = Len(arg[1])
    /\ \A n \in 1..Len(arg[1]) :
         res[2][1][n] = IF arg[1][n] \in {" ", "."} THEN "_" ELSE arg[1][n]
    /\ \A n \in 1..Len(res[2][1]) : res[2][1][n] \notin {" ", "."}

C8_Witness ==
  /\ res[1]
  /\ arg = << <<".", " ", "a">> >>
  /\ res[2] = << <<"_", "_", "a">> >>

\* C9: after a run in which every entry succeeded, the output directory
\* holds for every entry Q the file <base(Q)>.csv with the full result and
\* the file <base(Q)>_preview10.csv with the preview.
C9_BothArtifactsPresent ==
  pc = "done" =>
    /\ outDirExists
    /\ \A k \in 1..N :
         LET base == SafeName(QueryName(k))
             fullName == base \o <<".", "c", "s", "v">>
             prevName == base \o <<"_", "p", "r", "e", "v", "i", "e", "w", "1", "0",
                                    ".", "c", "s", "v">>
         IN /\ {fullName, prevName} \subseteq DOMAIN fs
            /\ Len(fs[fullName]) = Len(Eval(k, data).rows) + 1
            /\ Len(fs[prevName]) = Min(10, Len(Eval(k, data).rows)) + 1

C9_Witness == pc = "done" /\ Cardinality(DOMAIN fs) = 2 * N

\* C10: for every table other than reviews, a file that exists and holds a
\* malformed row makes a started run die in init_db, before any query is
\* executed and before any artifact is written.
C10_StrictFailsInIngestion ==
  (runs > 0 /\ dataDirExists
     /\ \E t \in TableNames \ {"reviews"} : srcFile[t] \in {"bad_head", "bad_tail"}) =>
    AbortedInIngestion

\* C11: ignore_errors is given to the view of reviews and to no other; when
\* reviews' file holds a malformed row and the other files are sound,
\* init_db returns, the run goes on to its end, and the view of reviews
\* yields exactly the well-formed rows of the file.
C11_ReviewsSkipMalformed ==
  /\ \A t \in TableNames : read_opts(t) = "ignore_errors" <=> t = "reviews"
  /\ (/\ runs > 0
      /\ dataDirExists
      /\ srcFile["reviews"] \in {"bad_head", "bad_tail"}
      /\ \A t \in TableNames \ {"reviews"} : srcFile[t] = "ok") =>
       /\ con
       /\ ~ScanFails("reviews")
       /\ (Ended /\ err.kind # "OSError") => pc = "done" /\ attempted = 1..N
       /\ LET file == FileRows("reviews", data)
              view == ViewRows("reviews", data)
          IN /\ Len(view) = Len(file) - 1
             /\ \A n \in 1..Len(view) : view[n].wellformed
             /\ \A j \in 1..Len(file) :
                  file[j].wellformed => \E n \in 1..Len(view) : view[n] = file[j]

C11_Witness ==
  /\ pc = "done"
  /\ srcFile["reviews"] = "bad_head"
  /\ Len(ViewRows("reviews", data)) < Len(FileRows("reviews", data))

\* C12: an entry with an empty name or an empty body is rejected with an
\* InvalidQueryDefError when the list is built, before any query of the run
\* is executed and before any artifact is written.
C12_InvalidDefRejected ==
  (runs > 0 /\ injected.kind \in {"empty_name", "empty_body"}) =>
    /\ pc = "aborted"
    /\ err.kind = "InvalidQueryDefError"
    /\ attempted = {}
    /\ written = {}
    /\ DOMAIN fs = {}

C14_TablesRegistered ==
  injected = NoInjection =>
    \A k \in 1..N : \A t \in Tables(queries[k]) :
      /\ t \in TableNames
      /\ con => views[t] = csv_map[TablePos(t)][2]

\* a run has executed and written the last entry, the one reading reviews
C14_Witness ==
  /\ injected = NoInjection
  /\ pc = "done"
  /\ N \in attempted
  /\ Tables(queries[N]) = {"reviews"}
  /\ Materialized(N)

\* the file names of csv_map
FileNames == {csv_map[n][2] : n \in 1..Len(csv_map)}

\* C15: csv_map has exactly 8 entries with pairwise distinct logical names
\* and pairwise distinct file names; every view init_db has created reads
\* the one file csv_map gives for its name, no two views read the same
\* file, and reviews reads order_reviews.csv.
C15_RegistryOneToOne ==
  /\ Len(csv_map) = 8
  /\ Cardinality(TableNames) = 8
  /\ Cardinality(FileNames) = 8
  /\ \A t \in TableNames : views[t] \in {"none", csv_map[TablePos(t)][2]}
  /\ \A s, t \in TableNames :
       (s # t /\ views[s] # "none") => views[s] # views[t]
  /\ con => /\ \A t \in TableNames : views[t] # "none"
            /\ views["reviews"] = "order_reviews.csv"

\* init_db has returned the connection with all eight views
C15_Witness ==
  /\ con
  /\ pc = "loop"
  /\ Cardinality({views[t] : t \in TableNames}) = 8
  /\ srcFile["reviews"] = "bad_tail"

\* C16: no step of the loop of main, a run_and_save that returns or one that
\* raises, changes a view or the connection: the views stay as init_db
\* returned them.
C16_ViewsReadOnly ==
  [][pc = "loop" => (views' = views /\ con' = con)]_vars

\* a run in which run_and_save returned for some entries and then raised
\* from the evaluator, the eight views still bound
C16_Witness ==
  /\ pc = "aborted"
  /\ con
  /\ err.kind = "duckdb.Error"
  /\ okLog # <<>>
  /\ views = ViewsUpTo(Len(csv_map))

\* when the loop of main stands before entry i, the entries before i, and
\* only they, have been executed, each with both artifacts written
InCatalogOrder ==
  pc = "loop" =>
    /\ attempted = 1..(i - 1)
    /\ \A k \in 1..(i - 1) : Materialized(k)

\* C17: the entries are processed one after another in the order of the
\* list, each executed and written before the next begins, and a run that
\* got past ingestion has processed each of the 23 entries once when it ends.
C17_InOrderExactlyOnce ==
  con =>
    /\ InCatalogOrder
    /\ Ended => attempted = 1..N

\* the [OK] lines the run has printed for entry k
OkLines(k) == {j \in 1..Len(okLog) : okLog[j].name = QueryName(k)}

\* the run died in run_and_save for entry k: the traceback of the uncaught
\* exception gives the kind and the cause of the failure
FailureShown(k) == pc = "aborted" /\ i = k /\ err.kind # "none"

\* C18: when a run that got past ingestion has ended, each of the 23 entries
\* is listed exactly once in what the run has reported, as a success with its
\* row count or as a failure with its error kind and cause.
C18_EveryEntryReported ==
  (Ended /\ con) =>
    \A k \in 1..N :
      \/ Cardinality(OkLines(k)) = 1 /\ ~FailureShown(k)
      \/ Cardinality(OkLines(k)) = 0 /\ FailureShown(k)

\* the two artifact paths of the entry the loop of main stands before
OwnPaths == {full_path(Entry(i).name), preview_path(Entry(i).name)}

MkdirError == [kind |-> "OSError", what |-> <<"OUTPUT_DIR">>]

\* C19: a run_and_save that gets past its mkdir leaves OUTPUT_DIR existing;
\* when OUTPUT_DIR exists already the mkdir does not raise, and no file
\* of the directory is removed or altered except the two artifact paths of
\* the entry at hand.
C19_OutDirFrame ==
  [][pc = "loop" =>
       /\ err' # MkdirError => outDirExists'
       /\ outDirExists => err' # MkdirError
       /\ DOMAIN fs \subseteq DOMAIN fs'
       /\ \A p \in DOMAIN fs \ OwnPaths : fs'[p] = fs[p]]_vars

\* the second run has rewritten the files of the first two entries from new
\* data in the directory the first run filled; the files of the third entry
\* are those of the first run
C19_Witness ==
  /\ runs = 2
  /\ pc = "loop"
  /\ i = 3
  /\ outDirExists
  /\ Cardinality(DOMAIN fs) = 2 * N
  /\ matData[1] = 2
  /\ matData[2] = 2
  /\ matData[3] = 1

\* the calendar date of a timestamp
DateOf(ts) == <<ts[1], ts[2], ts[3]>>

\* the purchase timestamps of the orders table span 2017-01-03 through
\* 2018-10-11: some order on either day, none before or after
Spans(S) ==
  /\ \E a \in S : DateOf(a) = <<2017, 1, 3>>
  /\ \E a \in S : DateOf(a) = <<2018, 10, 11>>
  /\ \A a \in S : /\ TsLeq(<<2017, 1, 3, 0>>, a)
                  /\ TsLeq(a, <<2018, 10, 11, 23>>)

\* the one row of entry 1 lies on the two days and has total_days = n
TimeRangeRow(n) ==
  /\ Len(res[2]) = 1
  /\ DateOf(res[2][1].first_order_date) = <<2017, 1, 3>>
  /\ DateOf(res[2][1].last_order_date) = <<2018, 10, 11>>
  /\ res[2][1].total_days = n

\* C20 as stated: over an orders table spanning 2017-01-03 through
\* 2018-10-11, entry 1 yields one row with first_order_date on 2017-01-03,
\* last_order_date on 2018-10-11 and total_days = 647.
C20_TotalDays647 == (res[1] /\ Spans(arg)) => TimeRangeRow(647)

\* C20 amended: over such a table entry 1 yields one row with the minimum
\* timestamp, on 2017-01-03, the maximum timestamp, on 2018-10-11, and
\* total_days = 646, the number of day boundaries between the two.
C20_TotalDays646 ==
  (res[1] /\ Spans(arg)) =>
    /\ TimeRangeRow(646)
    /\ res[2][1].first_order_date \in arg
    /\ res[2][1].last_order_date \in arg
    /\ \A a \in arg : /\ TsLeq(res[2][1].first_order_date, a)
                      /\ TsLeq(a, res[2][1].last_order_date)

\* entry 1 has been evaluated over a table of three orders, the first late
\* on 2017-01-03 and the last early on 2018-10-11
C20_Witness ==
  /\ res[1]
  /\ Spans(arg)
  /\ Cardinality(arg) = 3
  /\ res[2][1].first_order_date = <<2017, 1, 3, 23>>
  /\ res[2][1].last_order_date = <<2018, 10, 11, 1>>

\* the orders of payments table P that have a payment of n installments
OrdersWith(P, n) == {o \in {r[1] : r \in P} : \E r \in P : r[1] = o /\ r[3] = n}

\* installment values 1, 1, 2, 3 over four distinct orders
InstallmentExample(P) ==
  /\ Cardinality(P) = 4
  /\ \E o1, o2, o3, o4 \in 1..4 :
       /\ Cardinality({o1, o2, o3, o4}) = 4
       /\ {<<r[1], r[3]>> : r \in P} = {<<o1, 1>>, <<o2, 1>>, <<o3, 2>>, <<o4, 3>>}

\* C21: entry 18 yields one row per distinct installment value of payments,
\* holding the number of distinct orders with that value, in ascending order
\* of the value; for the values 1, 1, 2, 3 over four distinct orders the rows
\* are (1,2), (2,1), (3,1).
C21_OrdersByInstallments ==
  res[1] =>
    /\ Len(res[2]) = Cardinality({r[3] : r \in arg})
    /\ \A r \in arg : \E j \in 1..Len(res[2]) : res[2][j][1] = r[3]
    /\ \A j \in 1..Len(res[2]) :
         res[2][j][2] = Cardinality(OrdersWith(arg, res[2][j][1]))
    /\ \A j \in 1..(Len(res[2]) - 1) : res[2][j][1] < res[2][j + 1][1]
    /\ InstallmentExample(arg) => res[2] = <<<<1, 2>>, <<2, 1>>, <<3, 1>>>>

\* entry 18 has been evaluated over the table of the example
C21_Witness ==
  /\ res[1]
  /\ InstallmentExample(arg)
  /\ Len(res[2]) = 3

\* C22: in a render pass of the dashboard an exception of one run_query call
\* is caught at its site: the pass does not end in an exception, and when it
\* has ended every site of the pass has been run, its result rendered or its
\* error shown.
C22_DashboardFailureIsolated ==
  /\ pc # "crashed"
  /\ pc = "shown" =>
       rendered \cup shownErrors = 1..Len(RenderSites(selected_option))

\* C23: once init_db has returned to get_connection, no later run_query of
\* any pass runs init_db again, and the cached connection and its views stay
\* as they are.
C23_ConnectionCached ==
  [][con => (inits' = inits /\ con' /\ views' = views)]_vars

\* a second pass runs its queries on the connection the first pass cached,
\* init_db having run once, after a CSV file was deleted under it
C23_Witness ==
  /\ runs = 2
  /\ pc = "shown"
  /\ con
  /\ inits = 1
  /\ \E t \in TableNames : srcFile[t] = "missing"
  /\ views = ViewsUpTo(Len(csv_map))
  /\ shownErrors # {}

\* the preview write of the entry at hand has just raised
PreviewWriteFailed ==
  err' = [kind |-> "OSError", what |-> preview_path(Entry(i).name)]

\* the full artifact of the entry at hand is the new one, written by this run
NewFullInPlace ==
  /\ full_path(Entry(i).name) \in written'
  /\ full_path(Entry(i).name) \in DOMAIN fs'
  /\ fs'[full_path(Entry(i).name)] = ToCsv(Eval(i, data))

\* the preview of the entry at hand is absent after the step
PreviewMissing == preview_path(Entry(i).name) \notin DOMAIN fs'

\* the preview of the entry at hand is the file that was there before the step
PreviewStale ==
  IF preview_path(Entry(i).name) \in DOMAIN fs \cap DOMAIN fs'
    THEN fs'[preview_path(Entry(i).name)] = fs[preview_path(Entry(i).name)]
    ELSE FALSE

\* the preview of the entry at hand is an empty file after the step
PreviewEmpty ==
  IF preview_path(Entry(i).name) \in DOMAIN fs'
    THEN fs'[preview_path(Entry(i).name)] = <<>>
    ELSE FALSE

\* every preview this run has written has its full artifact written too
FullBeforePreview ==
  \A k \in 1..N :
    preview_path(QueryName(k)) \in written' => full_path(QueryName(k)) \in written'

\* C24 as stated: a preview written by the current run has its full artifact
\* written by the current run; a failed preview write leaves the new full
\* artifact in place and the preview missing or stale.
C24_PreviewMissingOrStale ==
  [][pc = "loop" =>
       /\ FullBeforePreview
       /\ PreviewWriteFailed =>
            (NewFullInPlace /\ (PreviewMissing \/ PreviewStale))]_vars

\* C24 amended: a preview written by the current run has its full artifact
\* written by the current run; a failed preview write leaves the new full
\* artifact in place and the preview missing, stale, or an empty file, the
\* last when the file was opened for writing before the write failed.
C24_PreviewMissingStaleOrEmpty ==
  [][pc = "loop" =>
       /\ FullBeforePreview
       /\ PreviewWriteFailed =>
            (NewFullInPlace /\ (PreviewMissing \/ PreviewStale \/ PreviewEmpty))]_vars

\* the second run died in the preview write of an entry: its preview is the
\* one the first run wrote, its full artifact is written by this run
C24_Witness ==
  /\ runs = 2
  /\ pc = "aborted"
  /\ err = [kind |-> "OSError", what |-> preview_path(Entry(i).name)]
  /\ full_path(Entry(i).name) \in written
  /\ preview_path(Entry(i).name) \in DOMAIN fs
  /\ preview_path(Entry(i).name) \notin written
  /\ matData[i] = 0
  /\ data = 2
  /\ fs[preview_path(Entry(i).name)] = ToCsv(head(Eval(i, 1), PreviewRows))

\* con.execute has just raised for the entry at hand
QueryFailed == err' = [kind |-> "duckdb.Error", what |-> Entry(i).name]

\* C25: when the query of an entry fails, run_and_save writes neither of its
\* artifacts and leaves every file of the output directory, the artifacts an
\* earlier run wrote for the entry among them, as it was; the output
\* directory exists afterwards, created before the query was executed.
C25_QueryFailureWritesNothing ==
  [][(pc = "loop" /\ QueryFailed) =>
       /\ fs' = fs
       /\ written' = written
       /\ outDirExists']_vars

\* the second run died in the query of an entry whose two artifacts are
\* those the first run wrote
C25_Witness ==
  /\ runs = 2
  /\ pc = "aborted"
  /\ err = [kind |-> "duckdb.Error", what |-> Entry(i).name]
  /\ i \in attempted
  /\ outDirExists
  /\ matData[i] = 1
  /\ full_path(Entry(i).name) \in DOMAIN fs \ written
  /\ preview_path(Entry(i).name) \in DOMAIN fs \ written
  /\ fs[full_path(Entry(i).name)] = ToCsv(Eval(i, 1))

\* the two artifacts of entry k hold the result of entry k over data version d
ArtifactsOf(k, d) ==
  /\ {full_path(QueryName(k)), preview_path(QueryName(k))} \subseteq DOMAIN fs
  /\ fs[full_path(QueryName(k))] = ToCsv(Eval(k, d))
  /\ fs[preview_path(QueryName(k))] = ToCsv(head(Eval(k, d), PreviewRows))

\* C26: when a run has stopped at entry i, the artifacts of every entry
\* before i have been rewritten by this run from the current data, and no
\* artifact of an entry after i has been touched by this run: the files an
\* earlier run wrote for it are still there, holding that run's result.
C26_StopLeavesLaterArtifacts ==
  (pc = "aborted" /\ con) =>
    /\ \A k \in 1..(i - 1) :
         /\ Materialized(k)
         /\ matData[k] = data
         /\ ArtifactsOf(k, data)
    /\ \A k \in (i + 1)..N :
         /\ k \notin attempted
         /\ full_path(QueryName(k)) \notin written
         /\ preview_path(QueryName(k)) \notin written
         /\ matData[k] # 0 => (matData[k] <= data /\ ArtifactsOf(k, matData[k]))

\* the second run, over new data, stopped at an entry in the middle of the
\* list: the first entry holds the new result, the last entry the result of
\* the first run, and the two results differ
C26_Witness ==
  /\ runs = 2
  /\ pc = "aborted"
  /\ con
  /\ i \in 2..(N - 1)
  /\ data = 2
  /\ matData[1] = 2
  /\ matData[N] = 1
  /\ ArtifactsOf(N, 1)
  /\ ~ArtifactsOf(N, 2)

\* the full and the preview paths of the 23 entries
ArtifactPaths ==
  {full_path(QueryName(k)) : k \in 1..N} \cup {preview_path(QueryName(k)) : k \in 1..N}

\* C27: the 46 paths derived from the 23 names are pairwise distinct: for
\* any two different names of the list the two full paths and the two
\* preview paths are four different paths.
C27_ArtifactPathsDistinct ==
  /\ N = 23
  /\ Cardinality(ArtifactPaths) = 46
  /\ (Len(arg) = 2 /\ arg[1] # arg[2]) =>
       Cardinality({full_path(arg[1]), preview_path(arg[1]),
                    full_path(arg[2]), preview_path(arg[2])}) = 4

\* the base names of entries 12 and 13, which differ in one word, have been
\* derived and differ
C27_Witness ==
  /\ res[1]
  /\ arg = <<QueryName(12), QueryName(13)>>
  /\ res[2][1] # res[2][2]
  /\ SubSeq(res[2][1], 1, 16) = SubSeq(res[2][2], 1, 16)

\* C28: the j-th [OK] line of a run is that of the j-th entry of the list;
\* when it has been printed both artifacts of the entry have been written by
\* this run, and its row count is the number of data lines of the full
\* artifact.
C28_OkLineAfterArtifacts ==
  \A j \in 1..Len(okLog) :
    /\ j <= N
    /\ okLog[j].name = QueryName(j)
    /\ okLog[j].file = full_path(QueryName(j))
    /\ Materialized(j)
    /\ full_path(QueryName(j)) \in DOMAIN fs
    /\ okLog[j].rows = Len(fs[full_path(QueryName(j))]) - 1

\* a run has printed the 23 lines, one of them for a result longer than
\* its preview and one for an empty result
C28_Witness ==
  /\ pc = "done"
  /\ Len(okLog) = N
  /\ \E j \in 1..N : okLog[j].rows > PreviewRows
  /\ \E j \in 1..N : okLog[j].rows = 0

\* the sum of the order counts of a set of rows
RECURSIVE SumCounts(_)
SumCounts(R) ==
  IF R = {} THEN 0
  ELSE LET r == CHOOSE x \in R : TRUE IN r.order_count + SumCounts(R \ {r})

\* the classes that hold hour h, by the ranges Dawn 0-6, Morning 7-12,
\* Afternoon 13-18, Night 19-23
ClassesOf(h) ==
  {c \in {"Dawn", "Morning", "Afternoon", "Night"} :
     \/ c = "Dawn" /\ h \in 0..6
     \/ c = "Morning" /\ h \in 7..12
     \/ c = "Afternoon" /\ h \in 13..18
     \/ c = "Night" /\ h \in 19..23}

\* C29: every hour 0..23 lies in exactly one of the four ranges and is
\* given that class; in the result of entry 5 no order with a non-null
\* timestamp is counted under NULL, and the counts add up to the number of
\* orders.
C29_TimeOfDayTotal ==
  /\ \A h \in 0..23 : ClassesOf(h) = {time_of_day(<<h>>)}
  /\ res[1] =>
       /\ SumCounts(res[2]) = Len(arg)
       /\ \A r \in res[2] :
            r.time_of_day = "NULL" =>
              r.order_count = Cardinality({n \in DOMAIN arg : arg[n] = <<>>})
       /\ \A n \in DOMAIN arg :
            arg[n] # <<>> =>
              \E r \in res[2] : r.time_of_day \in ClassesOf(arg[n][1])

\* entry 5 has been evaluated over two orders, of hours 6 and 7
C29_Witness ==
  /\ res[1]
  /\ arg = << <<6>>, <<7>> >>
  /\ Cardinality(res[2]) = 2

\* the number of times name f stands in the lists kept and removed
TimesListed(f) ==
  Cardinality({j \in 1..Len(kept) : kept[j] = f})
    + Cardinality({j \in 1..Len(removed) : removed[j] = f})

\* the last four characters of the name are .csv in either case
HasCsvSuffix(name) ==
  /\ Len(name) >= 4
  /\ name[Len(name) - 3] = "."
  /\ name[Len(name) - 2] \in {"c", "C"}
  /\ name[Len(name) - 1] \in {"s", "S"}
  /\ name[Len(name)] \in {"v", "V"}

\* C30: when the cleanup loop has ended, every regular file of the
\* directory has a name ending in .csv whatever its case; every regular
\* file that was in the directory when the loop began, downloaded or there
\* before, stands once in kept or removed and not in both, the files not
\* ending in .csv being gone; every subdirectory is still there with its
\* contents and stands in neither list.
C30_OnlyCsvFilesLeft ==
  pc = "done" =>
    /\ \A e \in dl_dir : e.kind = "file" => HasCsvSuffix(e.name)
    /\ \A e \in before \cup downloaded :
         IF e.kind = "file"
           THEN /\ TimesListed(e.name) = 1
                /\ (\E j \in 1..Len(kept) : kept[j] = e.name) <=> e \in dl_dir
           ELSE /\ TimesListed(e.name) = 0
                /\ e \in dl_dir

\* the loop has ended over a directory that held a text file before the
\* download, a downloaded file B.CSV and a subdirectory
C30_Witness ==
  /\ pc = "done"
  /\ \E e \in before : e.name = <<"n", ".", "t", "x", "t">>
  /\ \E e \in downloaded : e.name = <<"B", ".", "C", "S", "V">>
  /\ \E e \in dl_dir : e.kind = "dir" /\ e.inside # {}
  /\ kept = << <<"B", ".", "C", "S", "V">> >>
  /\ removed = << <<"n", ".", "t", "x", "t">> >>

=============================================================================
